---------------------------- MODULE Spec2Model ----------------------------
(***************************************************************************)
(* A model of apdfhelper (src/apdfhelper.py): the table-of-contents        *)
(* parser and outline builder, the named-destination rewriter and the      *)
(* page reordering commands.  Every command line invocation is one run of  *)
(* the program; pc is the position of the run.  Text (files, command line  *)
(* arguments) is a sequence of one-character strings, so that parsing and  *)
(* formatting are computed the way the code computes them.                 *)
(***************************************************************************)
EXTENDS Integers, Sequences, FiniteSets, TLC

VARIABLES
    pc,        \* position of the running command
    infile,    \* page list of the document the command opens
    pdf,       \* page list of the opened (in-memory) document
    outfile,   \* <<>> while nothing is saved, <<pages>> once save_pdf ran
    cmd,       \* the command and its arguments
    to_swap,   \* loop variable of cut
    todo,      \* remove: sorted(pages, reverse=True) still to delete
    prev,      \* <<>> or <<r>>: the previous run, when it was a swap
    runs,      \* number of runs started so far
    tocfile,   \* the lines of the table-of-contents file
    rt,        \* read_toc: level, parents, pages, titles (and how it ended)
    nodes,     \* the OutlineItems made so far: title, destination, children
    root,      \* outline.root: the top-level items, in order
    levels,    \* import_bookmarks: the stack of (level, item)
    entry,     \* import_bookmarks: index of the next entry of titles
    exported,  \* the lines printed by toc before the import (<<>>: none)
    report,    \* the lines printed by toc after the import
    args,      \* links, rewrite: the arguments of the command
    disk,      \* the named destinations of the document the command opens
    names,     \* the named destinations of the opened document
    transformation, \* the dictionary read_links returned
    at,        \* rewrite_named_links: <<kid, pair>> of the next destination
    output,    \* what the run printed and logged, in order
    written,   \* <<>> or <<names>>: the document save_pdf wrote
    reports,   \* number of runs of the command so far
    before     \* <<>> or <<r>>: the previous run of the command

pageVars == <<infile, pdf, outfile, cmd, to_swap, todo, prev, runs>>
tocVars == <<tocfile, rt, nodes, root, levels, entry, exported, report>>
linkVars == <<args, disk, names, transformation, at, output, written, reports, before>>
vars == <<pc, pageVars, tocVars, linkVars>>

\* what the page commands leave alone
otherVars == <<tocVars, linkVars>>

(***************************************************************************)
(* Bounds of the model.                                                    *)
(***************************************************************************)
MaxPages == 4
MaxRuns == 2
MaxSegments == 2

(***************************************************************************)
(* Text: str(int), int(str), str.split.                                    *)
(***************************************************************************)
Digits == <<"0", "1", "2", "3", "4", "5", "6", "7", "8", "9">>

IsDigit(c) == \E d \in 1..10 : Digits[d] = c

DigitVal(c) == (CHOOSE d \in 1..10 : Digits[d] = c) - 1

\* str(n) for n >= 0
RECURSIVE Str(_)
Str(n) == IF n < 10 THEN <<Digits[n + 1]>>
          ELSE Str(n \div 10) \o <<Digits[(n % 10) + 1]>>

\* whether int(tok) succeeds: on the alphabet of the model (digits, letters,
\* space, comma, dash, double quote) int() accepts exactly the non-empty
\* digit strings; everything else raises ValueError
IsInt(tok) == Len(tok) > 0 /\ \A i \in 1..Len(tok) : IsDigit(tok[i])

RECURSIVE IntVal(_)
IntVal(tok) == IF Len(tok) = 0 THEN 0
               ELSE 10 * IntVal(SubSeq(tok, 1, Len(tok) - 1)) + DigitVal(tok[Len(tok)])

\* s.split(sep): always at least one field, empty fields kept
RECURSIVE Split(_, _)
Split(s, sep) ==
    IF \A i \in 1..Len(s) : s[i] # sep THEN <<s>>
    ELSE LET k == CHOOSE i \in 1..Len(s) :
                      s[i] = sep /\ \A j \in 1..(i - 1) : s[j] # sep
         IN <<SubSeq(s, 1, k - 1)>> \o Split(SubSeq(s, k + 1, Len(s)), sep)

\* sep.join(fields)
RECURSIVE Join(_, _)
Join(fields, sep) ==
    IF Len(fields) = 0 THEN <<>>
    ELSE IF Len(fields) = 1 THEN fields[1]
    ELSE fields[1] \o <<sep>> \o Join(Tail(fields), sep)

\* sorted(s, reverse=True)
RECURSIVE InsertDesc(_, _)
InsertDesc(x, s) ==
    IF Len(s) = 0 THEN <<x>>
    ELSE IF x >= Head(s) THEN <<x>> \o s
    ELSE <<Head(s)>> \o InsertDesc(x, Tail(s))

RECURSIVE SortDesc(_)
SortDesc(s) == IF Len(s) = 0 THEN <<>> ELSE InsertDesc(Head(s), SortDesc(Tail(s)))

\* list(range(a, b))
RECURSIVE Range(_, _)
Range(a, b) == IF a >= b THEN <<>> ELSE <<a>> \o Range(a + 1, b)

(***************************************************************************)
(* Page reordering: swap_page, remove_page, and the commands swap, cut     *)
(* and remove.  A page is named by its number in the first document.       *)
(***************************************************************************)
\* pdf.pages.p(i) raises IndexError unless 1 <= i <= len(pdf.pages)
HasPage(pages, i) == i \in 1..Len(pages)

\* swap_page without page_temp: the target position is read after it was overwritten
swap_page_lost(pages, source, target) ==
    LET s1 == [pages EXCEPT ![target] = pages[source]]
    IN [s1 EXCEPT ![source] = s1[target]]

swap_page(pages, source, target) ==
    LET page_temp == pages[target]
        s1 == [pages EXCEPT ![target] = pages[source]]
    IN [s1 EXCEPT ![source] = page_temp]

remove_page(pages, index) ==
    SubSeq(pages, 1, index - 1) \o SubSeq(pages, index + 1, Len(pages))

\* read_toc before its first line: pages, titles = {}, []; level = 0; parents = []
NoToc == [level |-> 0, parents |-> <<>>, pages |-> <<>>, titles |-> <<>>,
          diagnostics |-> 0, status |-> "ok"]

NoCmd == [op |-> "none", source |-> 0, target |-> 0, ranges |-> <<>>, segs |-> <<>>,
          wellformed |-> TRUE]

\* the link variables of a run that is neither links nor rewrite
NoLinks ==
    /\ args = [command |-> "none"]
    /\ disk = <<>>
    /\ names = <<>>
    /\ transformation = <<>>
    /\ at = <<0, 0>>
    /\ output = <<>>
    /\ written = <<>>
    /\ reports = 1
    /\ before = <<>>

InitPages ==
    /\ pc = "idle"
    /\ infile \in {Range(1, n + 1) : n \in 1..MaxPages}
    /\ pdf = <<>>
    /\ outfile = <<>>
    /\ cmd = NoCmd
    /\ to_swap = 0
    /\ todo = <<>>
    /\ prev = <<>>
    /\ runs = 1
    /\ tocfile = <<>>
    /\ rt = NoToc
    /\ nodes = <<>>
    /\ root = <<>>
    /\ levels = <<>>
    /\ entry = 0
    /\ exported = <<>>
    /\ report = <<>>
    /\ NoLinks

\* the page variables of a run that is no page command
NoPages ==
    /\ infile = <<>>
    /\ pdf = <<>>
    /\ outfile = <<>>
    /\ cmd = NoCmd
    /\ to_swap = 0
    /\ todo = <<>>
    /\ prev = <<>>
    /\ runs = 1

\* the page numbers a user may type: one below and one above the document too
PageArgs == 0..(MaxPages + 1)

\* swap: open_pdf, swap_page, save_pdf
SwapCmd(source, target) ==
    /\ pc = "idle"
    /\ cmd' = [NoCmd EXCEPT !.op = "swap", !.source = source, !.target = target]
    /\ IF HasPage(infile, source) /\ HasPage(infile, target)
       THEN /\ pdf' = swap_page(infile, source, target)
            /\ outfile' = <<pdf'>>
            /\ pc' = "done"
       ELSE /\ pdf' = infile
            /\ outfile' = <<>>
            /\ pc' = "crash"
    /\ UNCHANGED otherVars
    /\ UNCHANGED <<infile, to_swap, todo, prev, runs>>

\* the next invocation opens the document the last one saved
NextRun ==
    /\ pc = "done"
    /\ runs < MaxRuns
    /\ Len(outfile) = 1
    /\ infile' = outfile[1]
    /\ prev' = IF cmd.op = "swap"
               THEN <<[source |-> cmd.source, target |-> cmd.target, before |-> infile]>>
               ELSE <<>>
    /\ pc' = "idle"
    /\ pdf' = <<>>
    /\ outfile' = <<>>
    /\ cmd' = NoCmd
    /\ runs' = runs + 1
    /\ UNCHANGED otherVars
    /\ UNCHANGED <<to_swap, todo>>

NextSwap ==
    \/ \E s \in PageArgs, t \in PageArgs : SwapCmd(s, t)
    \/ NextRun

SpecSwap == InitPages /\ [][NextSwap]_vars

\* cut: open_pdf, then one swap_page per value of range(source, target, -1)
StartCut(source, target) ==
    /\ pc = "idle"
    /\ cmd' = [NoCmd EXCEPT !.op = "cut", !.source = source, !.target = target]
    /\ pdf' = infile
    /\ to_swap' = source
    /\ pc' = "cut"
    /\ UNCHANGED otherVars
    /\ UNCHANGED <<infile, outfile, todo, prev, runs>>

\* one iteration of the loop of cut: swap_page(pdf, to_swap, to_swap - 1);
\* pages.p() of a position outside the document raises IndexError
CutStep ==
    /\ pc = "cut"
    /\ to_swap > cmd.target
    /\ IF HasPage(pdf, to_swap) /\ HasPage(pdf, to_swap - 1)
       THEN /\ pdf' = swap_page(pdf, to_swap, to_swap - 1)
            /\ to_swap' = to_swap - 1
            /\ pc' = "cut"
       ELSE /\ pc' = "crash"
            /\ UNCHANGED <<pdf, to_swap>>
    /\ UNCHANGED otherVars
    /\ UNCHANGED <<infile, outfile, cmd, todo, prev, runs>>

\* the range of cut is exhausted: save_pdf
CutSave ==
    /\ pc = "cut"
    /\ to_swap <= cmd.target
    /\ outfile' = <<pdf>>
    /\ pc' = "done"
    /\ UNCHANGED otherVars
    /\ UNCHANGED <<infile, pdf, cmd, to_swap, todo, prev, runs>>

NextCut ==
    \/ \E s \in PageArgs, t \in PageArgs : StartCut(s, t)
    \/ CutStep
    \/ CutSave

SpecCut == InitPages /\ [][NextCut]_vars

(***************************************************************************)
(* remove: the ranges argument is text; segs is what the user meant by it  *)
(* (a segment <<p>> is the page p, a segment <<a, b>> the range a-b).      *)
(***************************************************************************)
RenderSegment(seg) ==
    IF Len(seg) = 1 THEN Str(seg[1]) ELSE Str(seg[1]) \o <<"-">> \o Str(seg[2])

RECURSIVE RenderSegments(_)
RenderSegments(segs) ==
    IF Len(segs) = 1 THEN RenderSegment(segs[1])
    ELSE RenderSegment(segs[1]) \o <<",">> \o RenderSegments(Tail(segs))

Segments == {<<p>> : p \in PageArgs} \cup {<<a, b>> : a \in PageArgs, b \in PageArgs}

SegmentLists == UNION {[1..k -> Segments] : k \in 1..MaxSegments}

\* arguments that are no list of pages and ranges: "", "1-", "-1", "1,", "x"
MalformedRanges == {<<>>, <<"1", "-">>, <<"-", "1">>, <<"1", ",">>, <<"x">>}

RemoveRequests ==
    {[NoCmd EXCEPT !.op = "remove", !.ranges = RenderSegments(sl), !.segs = sl] :
        sl \in SegmentLists}
    \cup {[NoCmd EXCEPT !.op = "remove", !.ranges = m, !.wellformed = FALSE] :
        m \in MalformedRanges}

\* the body of the loop over ranges.split(","): the pages one segment adds,
\* ok = FALSE when int() raises ValueError
ParseSegment(segment) ==
    LET subsegment == Split(segment, "-")
    IN IF Len(subsegment) > 1
       THEN IF IsInt(subsegment[1]) /\ IsInt(subsegment[2])
            THEN [ok |-> TRUE,
                  pages |-> Range(IntVal(subsegment[1]), IntVal(subsegment[2]) + 1)]
            ELSE [ok |-> FALSE, pages |-> <<>>]
       ELSE IF IsInt(subsegment[1])
            THEN [ok |-> TRUE, pages |-> <<IntVal(subsegment[1])>>]
            ELSE [ok |-> FALSE, pages |-> <<>>]

RECURSIVE ParseSegments(_)
ParseSegments(segments) ==
    IF Len(segments) = 0 THEN [ok |-> TRUE, pages |-> <<>>]
    ELSE LET first == ParseSegment(Head(segments))
             rest == ParseSegments(Tail(segments))
         IN [ok |-> first.ok /\ rest.ok, pages |-> first.pages \o rest.pages]

ParseRanges(ranges) == ParseSegments(Split(ranges, ","))

\* remove up to open_pdf: a ValueError of the parse ends the run (sys.exit)
\* before the document is opened
StartRemove(request) ==
    /\ pc = "idle"
    /\ cmd' = request
    /\ LET parsed == ParseRanges(request.ranges)
       IN IF parsed.ok
          THEN /\ pdf' = infile
               /\ todo' = SortDesc(parsed.pages)
               /\ pc' = "remove"
          ELSE /\ pc' = "exit"
               /\ UNCHANGED <<pdf, todo>>
    /\ UNCHANGED otherVars
    /\ UNCHANGED <<infile, outfile, to_swap, prev, runs>>

\* one iteration of the loop of remove: remove_page(pdf, delete)
RemoveStep ==
    /\ pc = "remove"
    /\ todo # <<>>
    /\ IF HasPage(pdf, Head(todo))
       THEN /\ pdf' = remove_page(pdf, Head(todo))
            /\ todo' = Tail(todo)
            /\ pc' = "remove"
       ELSE /\ pc' = "crash"
            /\ UNCHANGED <<pdf, todo>>
    /\ UNCHANGED otherVars
    /\ UNCHANGED <<infile, outfile, cmd, to_swap, prev, runs>>

RemoveSave ==
    /\ pc = "remove"
    /\ todo = <<>>
    /\ outfile' = <<pdf>>
    /\ pc' = "done"
    /\ UNCHANGED otherVars
    /\ UNCHANGED <<infile, pdf, cmd, to_swap, todo, prev, runs>>

NextRemove ==
    \/ \E request \in RemoveRequests : StartRemove(request)
    \/ RemoveStep
    \/ RemoveSave

SpecRemove == InitPages /\ [][NextRemove]_vars

(***************************************************************************)
(* Claims about the page reordering commands.                              *)
(***************************************************************************)
Terminal == pc \in {"done", "crash", "exit"}

InRange(i) == HasPage(infile, i)

\* C5 (Swap invariant): a swap of two positions of the document completes and
\* saves the page list with exactly these two positions exchanged and every
\* other position unchanged; when the previous run was the same swap, the
\* saved page list is the one that run started from.
C5_SwapInvariant ==
    (cmd.op = "swap" /\ InRange(cmd.source) /\ InRange(cmd.target)) =>
        /\ pc = "done"
        /\ Len(outfile) = 1
        /\ Len(outfile[1]) = Len(infile)
        /\ outfile[1][cmd.source] = infile[cmd.target]
        /\ outfile[1][cmd.target] = infile[cmd.source]
        /\ \A i \in 1..Len(infile) :
               i \notin {cmd.source, cmd.target} => outfile[1][i] = infile[i]
        /\ (/\ prev # <<>>
            /\ prev[1].source = cmd.source
            /\ prev[1].target = cmd.target) => outfile[1] = prev[1].before

\* C5 witness: the same swap of two different positions has run twice
C5_Witness ==
    /\ pc = "done"
    /\ cmd.op = "swap"
    /\ cmd.source # cmd.target
    /\ prev # <<>>
    /\ prev[1].source = cmd.source
    /\ prev[1].target = cmd.target
    /\ infile # prev[1].before
    /\ Len(outfile) = 1

\* the page list with the page at position source taken out and put back at
\* position target
RemoveInsert(pages, source, target) ==
    LET without == remove_page(pages, source)
    IN SubSeq(without, 1, target - 1) \o <<pages[source]>>
           \o SubSeq(without, target, Len(without))

\* C3 (Cut equivalence): for source and target inside the document, cut ends
\* by saving the page list with the page at source removed and reinserted at
\* target.
C3_CutEquivalence ==
    (cmd.op = "cut" /\ Terminal /\ InRange(cmd.source) /\ InRange(cmd.target)) =>
        /\ pc = "done"
        /\ outfile = <<RemoveInsert(infile, cmd.source, cmd.target)>>

\* the 1-based indices a list of segments denotes
SegmentIndices(seg) == IF Len(seg) = 1 THEN {seg[1]} ELSE seg[1]..seg[2]

Denoted(segs) == UNION {SegmentIndices(segs[k]) : k \in 1..Len(segs)}

RECURSIVE Keep(_, _, _)
Keep(pages, i, S) ==
    IF i > Len(pages) THEN <<>>
    ELSE (IF i \in S THEN <<>> ELSE <<pages[i]>>) \o Keep(pages, i + 1, S)

ReversedRange(seg) == Len(seg) = 2 /\ seg[2] < seg[1]

\* a request of single pages and start-stop ranges (start <= stop), all
\* inside the document
ProperRequest ==
    /\ cmd.op = "remove"
    /\ cmd.wellformed
    /\ \A k \in 1..Len(cmd.segs) :
           /\ ~ReversedRange(cmd.segs[k])
           /\ \A i \in SegmentIndices(cmd.segs[k]) : InRange(i)

\* C4 (Remove): a proper request ends by saving exactly the pages whose index
\* is not denoted by the request, in their original order, also when segments
\* overlap or repeat a page.
C4_RemoveDenoted ==
    (ProperRequest /\ Terminal) =>
        /\ pc = "done"
        /\ outfile = <<Keep(infile, 1, Denoted(cmd.segs))>>

\* a request with a range whose stop is below its start, or that names an
\* index outside the document
BadRequest ==
    /\ cmd.op = "remove"
    /\ cmd.wellformed
    /\ \E k \in 1..Len(cmd.segs) :
           \/ ReversedRange(cmd.segs[k])
           \/ \E j \in 1..Len(cmd.segs[k]) : ~InRange(cmd.segs[k][j])

\* C7 (Remove input errors are fatal): a bad request ends in a fatal error,
\* and no output document is saved.
C7_BadRequestFatal ==
    (BadRequest /\ Terminal) => (pc \in {"crash", "exit"} /\ outfile = <<>>)

(***************************************************************************)
(* The table of contents: read_toc, import_bookmarks, retrieve_titles and  *)
(* the toc command.                                                        *)
(***************************************************************************)
MaxLines == 5       \* lines of a table-of-contents file
MaxBadLines == 3    \* lines of a file that may hold unreadable lines
MaxIndent == 2      \* leading spaces of a line
MaxNodes == 5       \* items of the outline a document starts with
TocDocPages == 12   \* pages of the document of the toc command

Letters == <<"A", "B", "C", "D", "E", "F", "G">>

Last(s) == s[Len(s)]

Front(s) == SubSeq(s, 1, Len(s) - 1)

RECURSIVE Spaces(_)
Spaces(n) == IF n <= 0 THEN <<>> ELSE <<" ">> \o Spaces(n - 1)

\* len(line) - len(line.lstrip(" "))
Indentation(line) ==
    IF \A i \in 1..Len(line) : line[i] = " " THEN Len(line)
    ELSE (CHOOSE i \in 1..Len(line) :
              line[i] # " " /\ \A j \in 1..(i - 1) : line[j] = " ") - 1

\* s[a:b] for a >= 0: a negative b counts from the end, both are clipped
PySlice(s, a, b) ==
    LET stop == IF b < 0 THEN (IF b + Len(s) < 0 THEN 0 ELSE b + Len(s))
                ELSE (IF b > Len(s) THEN Len(s) ELSE b)
    IN SubSeq(s, a + 1, stop)

\* pages[index] = title
DictSet(d, key, value) ==
    [k \in (DOMAIN d) \cup {key} |-> IF k = key THEN value ELSE d[k]]

\* the loop "while True: level = parents.pop(); if level == indentation: break":
\* raised is TRUE when pop() is called on the empty list (IndexError)
RECURSIVE PopParents(_, _, _)
PopParents(level, parents, indentation) ==
    IF Len(parents) = 0 THEN [level |-> level, parents |-> parents, raised |-> TRUE]
    ELSE IF Last(parents) = indentation
         THEN [level |-> indentation, parents |-> Front(parents), raised |-> FALSE]
         ELSE PopParents(Last(parents), Front(parents), indentation)

\* the except clause of read_toc: the diagnostic prints line[0], which raises
\* IndexError for an empty line, and that error leaves read_toc
ReadTocExcept(st, line) ==
    IF Len(line) = 0 THEN [st EXCEPT !.status = "crash"]
    ELSE [st EXCEPT !.diagnostics = @ + 1]

\* pages[index] = title; titles.append((title, level, index))
ReadTocEmit(st, title, index) ==
    [st EXCEPT !.pages = DictSet(@, index, title),
               !.titles = Append(@, <<title, st.level, index>>)]

\* one iteration of the loop of read_toc over the lines of the file
ReadTocLine(st, line) ==
    LET fields == Split(line, " ")
        token == Last(fields)
    IN IF ~IsInt(token) THEN ReadTocExcept(st, line)
       ELSE LET index == IntVal(token)
                indentation == Indentation(line)
                title == PySlice(line, indentation, Len(line) - (Len(Str(index)) + 1))
            IN IF indentation > st.level
               THEN ReadTocEmit([st EXCEPT !.parents = Append(@, st.level),
                                           !.level = indentation], title, index)
               ELSE IF indentation < st.level
               THEN LET popped == PopParents(st.level, st.parents, indentation)
                        after == [st EXCEPT !.level = popped.level,
                                            !.parents = popped.parents]
                    IN IF popped.raised THEN ReadTocExcept(after, line)
                       ELSE ReadTocEmit(after, title, index)
               ELSE ReadTocEmit(st, title, index)

\* read_toc(filename) for the lines of the file
RECURSIVE ReadTocFrom(_, _)
ReadTocFrom(st, lines) ==
    IF Len(lines) = 0 \/ st.status = "crash" THEN st
    ELSE ReadTocFrom(ReadTocLine(st, Head(lines)), Tail(lines))

read_toc(lines) == ReadTocFrom(NoToc, lines)

\* OutlineItem(title, page - 1)
OutlineItem(title, page) == [title |-> title, dest |-> page - 1, children |-> <<>>]

\* "while level <= current_level: current_level, current_item = levels.pop()":
\* raised is TRUE when pop() is called on the empty list (IndexError)
RECURSIVE PopLevels(_, _, _)
PopLevels(level, current, stack) ==
    IF level <= current[1]
    THEN IF Len(stack) = 0 THEN [current |-> current, stack |-> stack, raised |-> TRUE]
         ELSE PopLevels(level, Last(stack), Front(stack))
    ELSE [current |-> current, stack |-> stack, raised |-> FALSE]

\* the else branch of import_bookmarks up to the choice of current_item:
\* the item the new entry becomes a child of, and the stack left
FindParent(level, stack) ==
    IF Len(stack) = 0 THEN [current |-> <<0, 0>>, stack |-> stack, raised |-> TRUE]
    ELSE LET c1 == Last(stack)
             s1 == Front(stack)
         IN IF level = c1[1] /\ Len(s1) = 0
            THEN [current |-> c1, stack |-> s1, raised |-> TRUE]
            ELSE LET c2 == IF level = c1[1] THEN Last(s1) ELSE c1
                     s2 == IF level = c1[1] THEN Front(s1) ELSE s1
                     s3 == IF level > c2[1] THEN Append(s2, c2) ELSE s2
                 IN PopLevels(level, c2, s3)

\* the documents the toc command starts from: an outline of up to MaxNodes
\* items, the item i a child of the item parent[i] (0: of the root)
ParentMaps(n) == {f \in [1..n -> 0..n] : \A i \in 1..n : f[i] < i}

RECURSIVE ChildrenOf(_, _, _)
ChildrenOf(parent, i, k) ==
    IF k > Len(parent) THEN <<>>
    ELSE (IF parent[k] = i THEN <<k>> ELSE <<>>) \o ChildrenOf(parent, i, k + 1)

\* the titles of the items of a document: a letter, or a letter and a word
\* (no title is empty or starts with a space)
TitleStyles == {"letter", "words"}

ItemTitle(style, i) ==
    IF style = "letter" THEN <<Letters[i]>> ELSE <<Letters[i], " ", "b">>

\* the page of the first item; item i points at the page firstPage + i - 1
FirstPages == {1, TocDocPages - MaxNodes - 1}

Outline(parent, style, firstPage) ==
    [i \in 1..Len(parent) |->
        [title |-> ItemTitle(style, i), dest |-> firstPage + i - 2,
         children |-> ChildrenOf(parent, i, 1)]]

\* the table-of-contents files: line k is either Letters[k] at an indentation
\* with a page, or one of the unreadable lines
TocPages == {1, 10}

LineKinds == ((0..MaxIndent) \X TocPages)

\* the empty line, a line of spaces, a line whose last token is no number
BadKinds == {<<-1, 0>>, <<-2, 0>>, <<-3, 0>>}

TocLine(k, kind) ==
    IF kind[1] = -1 THEN <<>>
    ELSE IF kind[1] = -2 THEN <<" ", " ">>
    ELSE IF kind[1] = -3 THEN <<Letters[k], " ", "x">>
    ELSE Spaces(kind[1]) \o <<Letters[k], " ">> \o Str(kind[2])

TocFileOf(kinds) == [k \in 1..Len(kinds) |-> TocLine(k, kinds[k])]

TocFiles ==
    {TocFileOf(kinds) : kinds \in UNION {[1..n -> LineKinds] : n \in 0..MaxLines}}
    \cup {TocFileOf(kinds) :
            kinds \in UNION {[1..n -> LineKinds \cup BadKinds] : n \in 1..MaxBadLines}}

\* toc --tocfile --outfile on a document, or toc alone on a document with an
\* outline (the lines it prints are then used as the file of a second run)
InitToc ==
    /\ NoPages
    /\ NoLinks
    /\ rt = NoToc
    /\ levels = <<>>
    /\ entry = 0
    /\ exported = <<>>
    /\ report = <<>>
    /\ \/ /\ pc = "toc"
          /\ tocfile \in TocFiles
          /\ nodes = <<>>
          /\ root = <<>>
       \/ /\ pc = "list"
          /\ tocfile = <<>>
          /\ \E n \in 1..MaxNodes : \E parent \in ParentMaps(n) :
             \E style \in TitleStyles, firstPage \in FirstPages :
                /\ nodes = Outline(parent, style, firstPage)
                /\ root = ChildrenOf(parent, 0, 1)

\* convert_bookmark_item and the loop of retrieve_titles
RECURSIVE convert_bookmark_items(_, _, _)
convert_bookmark_items(items, ids, level) ==
    IF Len(ids) = 0 THEN <<>>
    ELSE LET bookmark == items[Head(ids)]
             dest_index == IF bookmark.dest \in 0..(TocDocPages - 1)
                           THEN bookmark.dest + 1 ELSE 0
         IN <<Spaces(level) \o bookmark.title \o <<" ">> \o Str(dest_index)>>
                \o convert_bookmark_items(items, bookmark.children, level + 1)
                \o convert_bookmark_items(items, Tail(ids), level)

retrieve_titles(items, top) == convert_bookmark_items(items, top, 0)

\* toc without --outfile: print the titles
TocList ==
    /\ pc \in {"list", "saved"}
    /\ IF pc = "list"
       THEN /\ exported' = retrieve_titles(nodes, root)
            /\ pc' = "listed"
            /\ UNCHANGED report
       ELSE /\ report' = retrieve_titles(nodes, root)
            /\ pc' = "done"
            /\ UNCHANGED exported
    /\ UNCHANGED <<tocfile, rt, nodes, root, levels, entry>>
    /\ UNCHANGED <<pageVars, linkVars>>

\* the printed lines become the table-of-contents file of the next run
TocReuse ==
    /\ pc = "listed"
    /\ tocfile' = exported
    /\ pc' = "toc"
    /\ UNCHANGED <<rt, nodes, root, levels, entry, exported, report>>
    /\ UNCHANGED <<pageVars, linkVars>>

\* toc --tocfile --outfile: delete_bookmarks, then import_bookmarks calls read_toc
TocStart ==
    /\ pc = "toc"
    /\ nodes' = <<>>
    /\ root' = <<>>
    /\ rt' = NoToc
    /\ entry' = 1
    /\ pc' = "read"
    /\ UNCHANGED <<tocfile, levels, exported, report>>
    /\ UNCHANGED <<pageVars, linkVars>>

\* one line of the file
ReadTocStep ==
    /\ pc = "read"
    /\ entry <= Len(tocfile)
    /\ rt' = ReadTocLine(rt, tocfile[entry])
    /\ IF rt'.status = "crash"
       THEN pc' = "crash" /\ UNCHANGED entry
       ELSE pc' = "read" /\ entry' = entry + 1
    /\ UNCHANGED <<tocfile, nodes, root, levels, exported, report>>
    /\ UNCHANGED <<pageVars, linkVars>>

\* read_toc returns: levels = []
ReadTocReturn ==
    /\ pc = "read"
    /\ entry > Len(tocfile)
    /\ levels' = <<>>
    /\ entry' = 1
    /\ pc' = "import"
    /\ UNCHANGED <<tocfile, rt, nodes, root, exported, report>>
    /\ UNCHANGED <<pageVars, linkVars>>

\* one iteration of the loop of import_bookmarks on st = (nodes, root, levels);
\* the new item is nodes[id]; raised is TRUE when levels.pop() raises IndexError
ImportEntry(st, titleLevelPage) ==
    LET title == titleLevelPage[1]
        level == titleLevelPage[2]
        page == titleLevelPage[3]
        id == Len(st.nodes) + 1
    IN IF level = 0
       THEN [nodes |-> Append(st.nodes, OutlineItem(title, page)),
             root |-> Append(st.root, id),
             levels |-> <<<<level, id>>>>,
             raised |-> FALSE]
       ELSE LET found == FindParent(level, st.levels)
                current_item == found.current[2]
            IN IF found.raised THEN [st EXCEPT !.raised = TRUE]
               ELSE [nodes |-> Append(
                         [st.nodes EXCEPT ![current_item].children = Append(@, id)],
                         OutlineItem(title, page)),
                     root |-> st.root,
                     levels |-> Append(found.stack, <<level, id>>),
                     raised |-> FALSE]

\* the loop of import_bookmarks over the entries read_toc returned
RECURSIVE ImportFrom(_, _)
ImportFrom(st, titles) ==
    IF Len(titles) = 0 \/ st.raised THEN st
    ELSE ImportFrom(ImportEntry(st, Head(titles)), Tail(titles))

ImportStep ==
    /\ pc = "import"
    /\ entry <= Len(rt.titles)
    /\ LET st == ImportEntry([nodes |-> nodes, root |-> root, levels |-> levels,
                              raised |-> FALSE], rt.titles[entry])
       IN IF st.raised
          THEN /\ pc' = "crash"
               /\ UNCHANGED <<nodes, root, levels, entry>>
          ELSE /\ nodes' = st.nodes
               /\ root' = st.root
               /\ levels' = st.levels
               /\ entry' = entry + 1
               /\ pc' = "import"
    /\ UNCHANGED <<tocfile, rt, exported, report>>
    /\ UNCHANGED <<pageVars, linkVars>>

\* the outline is written back (every destination must be a page of the
\* document) and save_pdf runs
ImportSave ==
    /\ pc = "import"
    /\ entry > Len(rt.titles)
    /\ pc' = IF \A i \in 1..Len(nodes) : nodes[i].dest \in 0..(TocDocPages - 1)
             THEN "saved" ELSE "crash"
    /\ UNCHANGED tocVars
    /\ UNCHANGED <<pageVars, linkVars>>

NextToc ==
    \/ TocList
    \/ TocReuse
    \/ TocStart
    \/ ReadTocStep
    \/ ReadTocReturn
    \/ ImportStep
    \/ ImportSave

SpecToc == InitToc /\ [][NextToc]_vars
(***************************************************************************)
(* Named destinations: read_links, rewrite_named_links and the commands    *)
(* links and rewrite.  The named destinations of a document are a sequence *)
(* of kids, a kid a sequence of (name, destination) pairs (the code walks  *)
(* kid.Names two entries at a time).  A destination is its array: the page *)
(* object (the number of the page it is, 0 for an object that is no page   *)
(* of the document), the view type and the view parameters; shape says     *)
(* whether the destination is that array, a dictionary with the array in   *)
(* its /D entry, or a dictionary without a /D entry.  The commands are run *)
(* without --detailed.                                                     *)
(***************************************************************************)
MaxDests == 2       \* named destinations of a document
LinkDocPages == 2   \* pages of the document
MaxReports == 2     \* runs of the command on the document

Quote == "\""

LinkNames == << <<"S">>, <<"T", " ", "t">>, <<"U">>, <<"V">> >>

\* s.strip()
RECURSIVE Strip(_)
Strip(s) ==
    IF Len(s) = 0 THEN s
    ELSE IF Head(s) = " " THEN Strip(Tail(s))
    ELSE IF Last(s) = " " THEN Strip(Front(s))
    ELSE s

\* "for title, _, index in titles: toctitles[title] = index"
RECURSIVE TocTitles(_, _)
TocTitles(d, titles) ==
    IF Len(titles) = 0 THEN d
    ELSE TocTitles(DictSet(d, Head(titles)[1], Head(titles)[3]), Tail(titles))

Stdout(text) == [channel |-> "stdout", text |-> text]

Info(text) == [channel |-> "info", text |-> text]

\* one iteration of the loop of read_links over the lines of the file; status
\* is "crash" for the IndexError of line[len(line) - 1] on an empty line, which
\* no except clause catches, and "exit" for sys.exit(-1)
ReadLinksLine(st, line, toctitles) ==
    IF Len(line) = 0 THEN [st EXCEPT !.status = "crash"]
    ELSE IF Last(line) = Quote
    THEN LET link_title == Strip(Split(line, Quote)[1])
             bookmark_title == Split(line, Quote)[2]
         IN IF bookmark_title \in DOMAIN toctitles
            THEN [st EXCEPT !.result = DictSet(@, link_title, toctitles[bookmark_title])]
            ELSE [st EXCEPT !.status = "exit",
                            !.out = Append(@, Stdout(<<"Could not find an entry for", " ">>
                                                     \o bookmark_title))]
    ELSE LET splitted == Split(line, " ")
             link_title == Join(Front(splitted), " ")
         IN IF IsInt(Last(splitted))
            THEN [st EXCEPT !.result = DictSet(@, link_title, IntVal(Last(splitted)))]
            ELSE [st EXCEPT !.status = "exit",
                            !.out = Append(@, Stdout(<<"Could not read a valid page number for",
                                                       " ">> \o line))]

RECURSIVE ReadLinksFrom(_, _, _)
ReadLinksFrom(st, lines, toctitles) ==
    IF Len(lines) = 0 \/ st.status # "ok" THEN st
    ELSE ReadLinksFrom(ReadLinksLine(st, Head(lines), toctitles), Tail(lines), toctitles)

\* read_links(filename, tocfile); a file is <<>> (no file name) or <<lines>>
read_links(filename, toc) ==
    LET none == [status |-> "ok", result |-> <<>>, out |-> <<>>]
    IN IF filename = <<>> THEN none
       ELSE LET read == IF toc = <<>> THEN NoToc ELSE read_toc(toc[1])
            IN IF read.status = "crash" THEN [none EXCEPT !.status = "crash"]
               ELSE ReadLinksFrom(none, filename[1], TocTitles(<<>>, read.titles))

\* Page(dest[0]).index raises ValueError unless the object is a page of the document
IsPage(object) == object \in 1..LinkDocPages

\* the try block of the loop of rewrite_named_links for one pair: the
\* destination after it, what it printed and logged, and the exception that
\* ended it: the TypeError of dest[1] when dest.get("/D") gave None, the
\* ValueError of Page(dest[0]).index, the IndexError of pdf.pages.p(), or
\* "none".  dest[1] = String("/Fit") replaces the view type and leaves
\* dest[2], dest[3] and dest[4] in the array.
RewriteTry(name, dest, a, tr) ==
    LET coerce == dest.view = "XYZ" /\ a.fit /\ a.outfile
        d1 == IF coerce THEN [dest EXCEPT !.view = "Fit"] ELSE dest
        out1 == IF coerce
                THEN <<Info(<<"Changing type of", " ">> \o name \o <<" ", "link to 'Fit'">>)>>
                ELSE <<>>
    IN IF dest.shape = "nodest"
       THEN [dest |-> dest, raised |-> "TypeError", out |-> <<>>]
       ELSE IF name \in DOMAIN tr
       THEN IF IsPage(tr[name])
            THEN [dest |-> [d1 EXCEPT !.page = tr[name]], raised |-> "none",
                  out |-> Append(out1, Info(<<"rewriting", " ">> \o name
                                            \o <<" ", "to page", " ">> \o Str(tr[name])))]
            ELSE [dest |-> d1, raised |-> "IndexError", out |-> out1]
       ELSE IF IsPage(d1.page)
            THEN [dest |-> d1, raised |-> "none",
                  out |-> Append(out1,
                      IF d1.page \in DOMAIN a.titles
                      THEN Stdout(name \o <<" ", Quote>> \o a.titles[d1.page] \o <<Quote>>)
                      ELSE Stdout(name \o <<" ">> \o Str(d1.page)))]
            ELSE [dest |-> d1, raised |-> "ValueError", out |-> out1]

\* the except ValueError clause, entered with what the try block left
RewriteExcept(name, tried, tr) ==
    IF name \in DOMAIN tr
    THEN IF IsPage(tr[name])
         THEN [dest |-> [tried.dest EXCEPT !.page = tr[name]], raised |-> "none",
               out |-> Append(tried.out, Stdout(name \o <<" ", "rewriting", " ">>
                                                \o Str(tr[name])))]
         ELSE [tried EXCEPT !.raised = "IndexError"]
    ELSE [dest |-> tried.dest, raised |-> "none",
          out |-> Append(tried.out, Stdout(name \o <<" ", "broken">>))]

\* the body of the loop of rewrite_named_links for one pair
RewritePair(name, dest, a, tr) ==
    LET tried == RewriteTry(name, dest, a, tr)
    IN IF tried.raised = "ValueError" THEN RewriteExcept(name, tried, tr) ELSE tried

\* the documents: pair k is named LinkNames[k] and points at page k (counted
\* round the document) or at no page, or is a dictionary without /D; every
\* kid holds at least one pair
Views == {"XYZ", "Fit"}

\* a destination that is a dictionary without a /D entry
NoDest == [page |-> 0, view |-> "none", params |-> <<>>, shape |-> "nodest"]

\* what a pair can be: <<its reference is a page, its view type>>, or NoDest
PairKinds == (BOOLEAN \X Views) \cup {<<FALSE, "none">>}

ViewParams(view) == IF view = "XYZ" THEN <<"left", "top", "zoom">> ELSE <<>>

PairPage(k) == ((k - 1) % LinkDocPages) + 1

PairLists ==
    UNION {{[k \in 1..n |->
                [name |-> LinkNames[k],
                 dest |-> IF c[k][2] = "none" THEN NoDest
                          ELSE [page |-> IF c[k][1] THEN PairPage(k) ELSE 0,
                                view |-> c[k][2], params |-> ViewParams(c[k][2]),
                                shape |-> w]]] :
              c \in [1..n -> PairKinds], w \in {"array", "dict"}} : n \in 1..MaxDests}

RECURSIVE Groupings(_)
Groupings(pairs) ==
    IF Len(pairs) = 0 THEN {<<>>}
    ELSE UNION {{<<SubSeq(pairs, 1, k)>> \o g :
                    g \in Groupings(SubSeq(pairs, k + 1, Len(pairs)))} :
                k \in 1..Len(pairs)}

LinkDocs == UNION {Groupings(pairs) : pairs \in PairLists}

\* the link files: a line for S (any page, one past the document too), then a
\* line for "T t"; and files with a repeated name, a blank line, a last token
\* that is no number, and quoted titles
LinkLine(k, n) == LinkNames[k] \o <<" ">> \o Str(n)

MapFiles ==
    {(IF n1 = 0 THEN <<>> ELSE <<LinkLine(1, n1)>>)
        \o (IF n2 = 0 THEN <<>> ELSE <<LinkLine(2, n2)>>) :
     n1 \in 0..(LinkDocPages + 1), n2 \in 0..1}

QuotedFiles == {<<LinkNames[1] \o <<" ", Quote, "A", Quote>>>>,
                <<LinkNames[1] \o <<" ", Quote, "Z", Quote>>>>}

SpecialFiles ==
    {<<LinkLine(1, 1), LinkLine(1, 2)>>,
     <<LinkLine(1, 2), <<>>, LinkLine(2, 1)>>,
     <<LinkLine(1, 2), <<" ">>, LinkLine(2, 1)>>,
     <<LinkNames[1] \o <<" ", "x">>, LinkLine(2, 1)>>}

\* the table-of-contents files given with a link file
LinkTocFiles == {<<<<"A", " ", "2">>>>,
                 <<<<"A", " ", "x">>, <<"A", " ", "2">>>>,
                 <<<<>>, <<"A", " ", "2">>>>}

NoTitles == <<>>

RewriteArgs ==
    {[command |-> "rewrite", config |-> <<c>>, tocfile |-> <<>>, outfile |-> o,
      fit |-> f, titles |-> NoTitles] :
        c \in MapFiles \cup SpecialFiles \cup QuotedFiles, o \in BOOLEAN, f \in BOOLEAN}
    \cup {[command |-> "rewrite", config |-> <<c>>, tocfile |-> <<t>>, outfile |-> TRUE,
           fit |-> FALSE, titles |-> NoTitles] :
        c \in QuotedFiles \cup {<<LinkLine(1, 2)>>}, t \in LinkTocFiles}

\* links, with and without --titles (a title for page 1)
LinksArgs ==
    {[command |-> "links", config |-> <<>>, tocfile |-> <<>>, outfile |-> FALSE,
      fit |-> FALSE, titles |-> t] : t \in {NoTitles, DictSet(<<>>, 1, <<"I">>)}}

InitLinks ==
    /\ pc = "links"
    /\ NoPages
    /\ tocfile = <<>>
    /\ rt = NoToc
    /\ nodes = <<>>
    /\ root = <<>>
    /\ levels = <<>>
    /\ entry = 0
    /\ exported = <<>>
    /\ report = <<>>
    /\ args \in RewriteArgs \cup LinksArgs
    /\ disk \in LinkDocs
    /\ names = <<>>
    /\ transformation = <<>>
    /\ at = <<0, 0>>
    /\ output = <<>>
    /\ written = <<>>
    /\ reports = 1
    /\ before = <<>>

\* rewrite_named_links up to its loop: the document is open, read_links runs
ReadLinks ==
    /\ pc = "links"
    /\ names' = disk
    /\ LET read == read_links(args.config, args.tocfile)
       IN /\ output' = read.out
          /\ transformation' = read.result
          /\ IF read.status = "ok"
             THEN pc' = "rewrite" /\ at' = <<1, 1>>
             ELSE pc' = read.status /\ at' = <<0, 0>>
    /\ UNCHANGED <<args, disk, written, reports, before>>
    /\ UNCHANGED <<pageVars, tocVars>>

\* one iteration of the loops of rewrite_named_links
RewriteStep ==
    /\ pc = "rewrite"
    /\ LET pair == names[at[1]][at[2]]
           done == RewritePair(pair.name, pair.dest, args, transformation)
       IN /\ output' = output \o done.out
          /\ names' = [names EXCEPT ![at[1]][at[2]].dest = done.dest]
          /\ IF done.raised # "none" THEN pc' = "crash" /\ UNCHANGED at
             ELSE IF at[2] < Len(names[at[1]])
             THEN pc' = "rewrite" /\ at' = <<at[1], at[2] + 1>>
             ELSE IF at[1] < Len(names)
             THEN pc' = "rewrite" /\ at' = <<at[1] + 1, 1>>
             ELSE pc' = "returned" /\ at' = <<0, 0>>
    /\ UNCHANGED <<args, disk, transformation, written, reports, before>>
    /\ UNCHANGED <<pageVars, tocVars>>

\* rewrite after rewrite_named_links: with a tocfile delete_bookmarks and
\* import_bookmarks, with an outfile save_pdf; links ends here
Finish ==
    /\ pc = "returned"
    /\ LET read == IF args.tocfile = <<>> THEN NoToc ELSE read_toc(args.tocfile[1])
           imported == ImportFrom([nodes |-> <<>>, root |-> <<>>, levels |-> <<>>,
                                   raised |-> FALSE], read.titles)
       IN IF args.command = "rewrite" /\ (read.status = "crash" \/ imported.raised)
          THEN pc' = "crash" /\ UNCHANGED written
          ELSE /\ pc' = "done"
               /\ written' = IF args.command = "rewrite" /\ args.outfile
                             THEN <<names>> ELSE written
    /\ UNCHANGED <<args, disk, names, transformation, at, output, reports, before>>
    /\ UNCHANGED <<pageVars, tocVars>>

\* the names a run reported as broken
BrokenNames(out) ==
    {LinkNames[k] : k \in {j \in 1..Len(LinkNames) :
        \E i \in 1..Len(out) : out[i] = Stdout(LinkNames[j] \o <<" ", "broken">>)}}

\* a run without transformation is run again, on the document it saved if it
\* saved one
ReportAgain ==
    /\ pc = "done"
    /\ reports < MaxReports
    /\ transformation = <<>>
    /\ before' = <<[broken |-> BrokenNames(output), disk |-> disk]>>
    /\ disk' = IF written = <<>> THEN disk ELSE written[1]
    /\ names' = <<>>
    /\ output' = <<>>
    /\ written' = <<>>
    /\ reports' = reports + 1
    /\ pc' = "links"
    /\ UNCHANGED <<args, transformation, at>>
    /\ UNCHANGED <<pageVars, tocVars>>

NextLinks ==
    \/ ReadLinks
    \/ RewriteStep
    \/ Finish
    \/ ReportAgain

SpecLinks == InitLinks /\ [][NextLinks]_vars

(***************************************************************************)
(* Claims about the named destinations.                                    *)
(***************************************************************************)
RECURSIVE FlatPairs(_)
FlatPairs(kids) == IF Len(kids) = 0 THEN <<>> ELSE Head(kids) \o FlatPairs(Tail(kids))

\* rewrite_named_links has returned
Returned == pc \in {"returned", "done"}

Mapped(name) == name \in DOMAIN transformation

\* C6 (Rewrite of a mapped name): after rewrite_named_links every destination
\* whose name is a key of the transformation points at the mapped page, and
\* the line "NAME rewriting PAGENUMBER" has been printed for it.
C6_MappedRewrite ==
    Returned =>
        \A k \in 1..Len(FlatPairs(names)) :
            LET pair == FlatPairs(names)[k]
            IN Mapped(pair.name) =>
                   /\ pair.dest.page = transformation[pair.name]
                   /\ \E i \in 1..Len(output) :
                          output[i] = Stdout(pair.name \o <<" ", "rewriting", " ">>
                                             \o Str(transformation[pair.name]))

\* a line that is empty or only spaces
BlankLine(line) == \A i \in 1..Len(line) : line[i] = " "

BadTocLine(line) == BlankLine(line) \/ ~IsInt(Last(Split(line, " ")))

\* in a link file a line that ends with a double quote names a title
BadLinkLine(line) ==
    BlankLine(line) \/ (Last(line) # Quote /\ ~IsInt(Last(Split(line, " "))))

GoodTocLine(line) == ~BadTocLine(line)

GoodLinkLine(line) == ~BadLinkLine(line)

\* a file without its blank and non-integer lines
GoodToc(file) == IF file = <<>> THEN <<>> ELSE <<SelectSeq(file[1], GoodTocLine)>>

GoodLinks(file) == IF file = <<>> THEN <<>> ELSE <<SelectSeq(file[1], GoodLinkLine)>>

\* C8 (Input-format errors are local): reading a link file, and the TOC file
\* given with it, neither stops at a blank line or at a line whose last token
\* is no integer, and every other line produces its entry: the entries and
\* the dictionary are those of the files without these lines.
C8_FormatErrorsLocal ==
    [][(/\ pc = "links"
        /\ args.config # <<>>
        /\ read_links(GoodLinks(args.config), GoodToc(args.tocfile)).status = "ok") =>
           /\ pc' = "rewrite"
           /\ transformation' =
                  read_links(GoodLinks(args.config), GoodToc(args.tocfile)).result
           /\ args.tocfile # <<>> =>
                  /\ read_toc(args.tocfile[1]).status = "ok"
                  /\ read_toc(args.tocfile[1]).titles
                         = read_toc(GoodToc(args.tocfile)[1]).titles]_vars

\* what the run printed or logged for a destination: everything but the
\* note that a view type was changed
IsOutcome(e) == e.text[1] # "Changing type of"

Outcomes == SelectSeq(output, IsOutcome)

StartsWith(text, name) == Len(text) >= Len(name) /\ SubSeq(text, 1, Len(name)) = name

\* C9 (One bad destination does not block the others): when
\* rewrite_named_links has returned there is exactly one outcome per pair, in
\* document order; the outcome is "name broken" exactly for the pairs whose
\* page cannot be resolved and whose name is not mapped; every other pair is
\* reported with its page or retargeted to its mapped page, whatever came
\* before it.  The run ends at a pair only when the pair is mapped to a page
\* number outside the document, never because of the destination.  A run
\* without transformation that follows a run reports the same broken names.
C9_BrokenDoesNotBlock ==
    /\ Returned =>
           /\ Len(Outcomes) = Len(FlatPairs(disk))
           /\ \A k \in 1..Len(FlatPairs(disk)) :
                  LET was == FlatPairs(disk)[k]
                      now == FlatPairs(names)[k]
                      outcome == Outcomes[k]
                  IN /\ (~Mapped(was.name) /\ ~IsPage(was.dest.page))
                            <=> outcome = Stdout(was.name \o <<" ", "broken">>)
                     /\ (~Mapped(was.name) /\ IsPage(was.dest.page)) =>
                            /\ outcome.channel = "stdout"
                            /\ StartsWith(outcome.text, was.name)
                            /\ now.dest.page = was.dest.page
                     /\ Mapped(was.name) =>
                            /\ now.dest.page = transformation[was.name]
                            /\ outcome.channel = "info"
    /\ (pc = "crash" /\ at # <<0, 0>>) =>
           /\ Mapped(names[at[1]][at[2]].name)
           /\ ~IsPage(transformation[names[at[1]][at[2]].name])
    /\ (Returned /\ before # <<>>) => BrokenNames(output) = before[1].broken

\* C10 (Fit coercion): after rewrite_named_links with fit and an output file
\* every destination that had view type XYZ has view type Fit and no view
\* parameters, and no destination with view type Fit has view parameters;
\* otherwise view type and parameters of every destination are unchanged.
C10_FitCoercion ==
    Returned =>
        \A k \in 1..Len(FlatPairs(disk)) :
            LET was == FlatPairs(disk)[k].dest
                now == FlatPairs(names)[k].dest
            IN IF args.fit /\ args.outfile
               THEN /\ was.view = "XYZ" => (now.view = "Fit" /\ now.params = <<>>)
                    /\ now.view = "Fit" => now.params = <<>>
               ELSE now.view = was.view /\ now.params = was.params

(***************************************************************************)
(* Claims about the table of contents.                                     *)
(***************************************************************************)
LevelOf(titles, k) == titles[k][2]

\* the first entry is at level 0; every later entry is one step deeper than
\* the entry before it, or at the level of an entry that is still open
WellFormedLevels(titles) ==
    /\ Len(titles) >= 1
    /\ LevelOf(titles, 1) = 0
    /\ \A k \in 2..Len(titles) :
           \/ LevelOf(titles, k) = LevelOf(titles, k - 1) + 1
           \/ \E j \in 1..(k - 1) :
                  /\ LevelOf(titles, j) = LevelOf(titles, k)
                  /\ \A m \in j..(k - 1) : LevelOf(titles, m) >= LevelOf(titles, k)

\* the nearest preceding entry of a strictly smaller level (0: the root)
NearestShallower(titles, k) ==
    IF \A j \in 1..(k - 1) : LevelOf(titles, j) >= LevelOf(titles, k) THEN 0
    ELSE CHOOSE j \in 1..(k - 1) :
             /\ LevelOf(titles, j) < LevelOf(titles, k)
             /\ \A m \in (j + 1)..(k - 1) : LevelOf(titles, m) >= LevelOf(titles, k)

ExpectedParents(titles) == [k \in 1..Len(titles) |-> NearestShallower(titles, k)]

\* the import of the entries read from the file has ended
ImportEnded == rt.status = "ok" /\ pc \in {"crash", "saved", "done"}

\* C1 (import_bookmarks builds the tree): for a well-formed leveled entry
\* sequence the import completes without error, every level-0 entry is an item
\* of the outline root and every other entry is a child of the nearest
\* preceding entry of a smaller level, children in input order.
C1_ImportTree ==
    (ImportEnded /\ WellFormedLevels(rt.titles)) =>
        /\ pc # "crash"
        /\ Len(nodes) = Len(rt.titles)
        /\ root = ChildrenOf(ExpectedParents(rt.titles), 0, 1)
        /\ \A i \in 1..Len(nodes) :
               /\ nodes[i].children = ChildrenOf(ExpectedParents(rt.titles), i, 1)
               /\ nodes[i].title = rt.titles[i][1]
               /\ nodes[i].dest = rt.titles[i][3] - 1

\* C2 (Round-trip): the lines toc prints for a document, read by read_toc and
\* imported into the emptied outline, give a document for which toc prints the
\* same lines.
C2_RoundTrip ==
    (exported # <<>> /\ pc \in {"crash", "saved", "done"}) =>
        /\ pc # "crash"
        /\ (pc = "done" => report = exported)


\* read_toc has read every line of the file
ReadTocEnded == pc = "read" /\ entry > Len(tocfile)

\* the first entry of the list that names the page
FirstEntry(titles, page) ==
    CHOOSE k \in 1..Len(titles) :
        titles[k][3] = page /\ \A j \in 1..(k - 1) : titles[j][3] # page

\* C11 (First title per page): the map returned by read_toc holds, for every
\* page that an entry names, the title of the first entry that names it, and
\* the list of entries holds one entry per parsed line, every other line
\* having given a diagnostic.
C11_FirstTitlePerPage ==
    ReadTocEnded =>
        /\ DOMAIN rt.pages = {rt.titles[k][3] : k \in 1..Len(rt.titles)}
        /\ \A page \in DOMAIN rt.pages :
               rt.pages[page] = rt.titles[FirstEntry(rt.titles, page)][1]
        /\ Len(rt.titles) + rt.diagnostics = Len(tocfile)

\* the line has a page number, is indented less than the current level, and
\* its indentation is no value of the parents stack
UnmatchedDedent(st, line) ==
    /\ IsInt(Last(Split(line, " ")))
    /\ Indentation(line) < st.level
    /\ Len(st.parents) > 0
    /\ \A i \in 1..Len(st.parents) : st.parents[i] # Indentation(line)

\* C12 (Unmatched dedent): at a line with an unmatched dedent read_toc empties
\* the parents stack, takes the last popped value (the bottom of the stack) as
\* the current level, and appends the entry (title, level, page) of the line
\* with that level to the entries.
C12_UnmatchedDedent ==
    [][(/\ pc = "read"
        /\ entry <= Len(tocfile)
        /\ UnmatchedDedent(rt, tocfile[entry])) =>
           LET line == tocfile[entry]
               index == IntVal(Last(Split(line, " ")))
               title == PySlice(line, Indentation(line),
                                Len(line) - (Len(Str(index)) + 1))
           IN /\ rt'.parents = <<>>
              /\ rt'.level = rt.parents[1]
              /\ rt'.titles = Append(rt.titles, <<title, rt.parents[1], index>>)
              /\ pc' = "read"
              /\ entry' = entry + 1]_vars

====
